---- MODULE Spec2Model ----
(***************************************************************************)
(* CANSLIM screener (src/canslim_screener.py).                             *)
(*                                                                         *)
(* Numbers.  Earnings, closes and volumes are integers.  Every quotient    *)
(* the code computes is kept as an exact fraction n/d (d > 0) or as one of *)
(* the IEEE values the numpy division produces for a zero divisor: +inf,   *)
(* -inf, nan.  Comparisons follow IEEE: any comparison with nan is false.  *)
(* The input values enumerated below are chosen so that no quantity lies   *)
(* exactly on a threshold where binary rounding would differ from exact    *)
(* arithmetic (earnings divisors are powers of two; no close is exactly    *)
(* 5% below its predecessor, 95% of the maximum or 15% above the minimum). *)
(*                                                                         *)
(* Series.  A pandas Series is a sequence, positions 1..Len; iloc[-k] is   *)
(* position Len - k + 1.  A DataFrame is a record of equally long columns. *)
(* Two price frames fetched for the same period end on the same date, so   *)
(* index alignment pairs their bars from the end.                          *)
(***************************************************************************)
EXTENDS Integers, Sequences, FiniteSets, TLC

\* ------------------------------------------------------------------ bounds
NumTickers == 2
MaxQ == 4
MaxBars == 3
MaxSegs == 2
MaxA == 3
MaxExtra == 1

\* ------------------------------------------------------- program constants
Window == 20
MAWindow == 200
MaxFloat == 200000000
MinGrowth == 25
DecelCeiling == 15
MinInstitutional == 30

\* ------------------------------------------------------ float arithmetic
Fin(n, d) == [k |-> "fin", n |-> n, d |-> d]
NaN == [k |-> "nan", n |-> 0, d |-> 1]
PosInf == [k |-> "inf", n |-> 1, d |-> 1]
NegInf == [k |-> "ninf", n |-> -1, d |-> 1]

Abs(x) == IF x < 0 THEN -x ELSE x

IsFinite(a) == a.k = "fin"

Rank(a) == IF a.k = "inf" THEN 1 ELSE IF a.k = "ninf" THEN -1 ELSE 0

\* a < b on floats
Lt(a, b) ==
  IF a.k = "nan" \/ b.k = "nan" THEN FALSE
  ELSE IF a.k = "fin" /\ b.k = "fin" THEN a.n * b.d < b.n * a.d
  ELSE Rank(a) < Rank(b)

Gt(a, b) == Lt(b, a)

\* a + b on floats
Add(a, b) ==
  IF a.k = "nan" \/ b.k = "nan" THEN NaN
  ELSE IF a.k = "fin" /\ b.k = "fin" THEN Fin(a.n * b.d + b.n * a.d, a.d * b.d)
  ELSE IF a.k = "fin" THEN b
  ELSE IF b.k = "fin" THEN a
  ELSE IF a.k = b.k THEN a
  ELSE NaN

\* np.mean of a two-element list
Mean2(a, b) ==
  LET s == Add(a, b) IN IF s.k = "fin" THEN Fin(s.n, 2 * s.d) ELSE s

\* (cur - prev) / abs(prev) * 100 on numpy scalars: a zero divisor yields
\* +inf, -inf or nan (with a RuntimeWarning), never an exception.
RawGrowth(cur, prev) ==
  IF prev = 0
  THEN IF cur > 0 THEN PosInf ELSE IF cur < 0 THEN NegInf ELSE NaN
  ELSE Fin(100 * (cur - prev), Abs(prev))

\* series.iloc[i] for a negative i; callers establish Len(s) >= -i
Iloc(s, i) == s[Len(s) + i + 1]

\* sum, max and min of s[lo..hi], by halving (operands in series order)
RECURSIVE SumRange(_, _, _)
SumRange(s, lo, hi) ==
  IF lo > hi THEN 0
  ELSE IF lo = hi THEN s[lo]
  ELSE LET mid == (lo + hi) \div 2
       IN SumRange(s, lo, mid) + SumRange(s, mid + 1, hi)

SumSeq(s) == SumRange(s, 1, Len(s))

RECURSIVE MaxRange(_, _, _)
MaxRange(s, lo, hi) ==
  IF lo = hi THEN s[lo]
  ELSE LET mid == (lo + hi) \div 2
           a == MaxRange(s, lo, mid)
           b == MaxRange(s, mid + 1, hi)
       IN IF a > b THEN a ELSE b

MaxSeq(s) == MaxRange(s, 1, Len(s))

RECURSIVE MinRange(_, _, _)
MinRange(s, lo, hi) ==
  IF lo = hi THEN s[lo]
  ELSE LET mid == (lo + hi) \div 2
           a == MinRange(s, lo, mid)
           b == MinRange(s, mid + 1, hi)
       IN IF a < b THEN a ELSE b

MinSeq(s) == MinRange(s, 1, Len(s))

\* ------------------------------------------------------------ data frames
Frame(closes, volumes) == [Close |-> closes, Volume |-> volumes]
EmptyFrame == Frame(<<>>, <<>>)
IsEmpty(data) == Len(data.Close) = 0

\* Series.pct_change(): nan at the first position, then c[i]/c[i-1] - 1
PctChange(closes) ==
  [i \in 1..Len(closes) |->
     IF i = 1 THEN NaN
     ELSE Fin(closes[i] - closes[i-1], closes[i-1])]

\* ------------------------------------------------------- fetch_financials
QEpsGrowth(qe) ==
  IF Len(qe) > 1
  THEN LET latest_eps == Iloc(qe, -1)
           prev_eps == Iloc(qe, -2)
       IN IF prev_eps # 0 THEN RawGrowth(latest_eps, prev_eps) ELSE Fin(0, 1)
  ELSE Fin(0, 1)

\* eps_values[i] addresses the i-th of the last three rows (an index whose
\* labels are not integers, or exactly three rows); a label lookup that
\* fails raises inside the try block, which is the d.ok = FALSE case of
\* FetchFinancials
AEpsGrowth(ae) ==
  IF Len(ae) >= 3
  THEN LET eps_values == SubSeq(ae, Len(ae) - 2, Len(ae))
       IN Mean2(RawGrowth(eps_values[2], eps_values[1]),
                RawGrowth(eps_values[3], eps_values[2]))
  ELSE Fin(0, 1)

\* the growth rates the annual branch puts in annual_growths
AnnualGrowths(ae) ==
  IF Len(ae) >= 3
  THEN LET eps_values == SubSeq(ae, Len(ae) - 2, Len(ae))
       IN <<RawGrowth(eps_values[2], eps_values[1]),
            RawGrowth(eps_values[3], eps_values[2])>>
  ELSE <<>>

\* ------------------------------------------- check_accelerating_earnings
\* growths for i in range(-2, 0)
AccelGrowths(qe) ==
  <<RawGrowth(Iloc(qe, -2), Iloc(qe, -3)), RawGrowth(Iloc(qe, -1), Iloc(qe, -2))>>

CheckAcceleratingEarnings(qe) ==
  IF Len(qe) < 3 THEN [raised |-> FALSE, value |-> FALSE]
  ELSE LET growths == AccelGrowths(qe)
       IN [raised |-> FALSE,
           value |-> Gt(growths[2], growths[1]) /\ Gt(growths[2], Fin(MinGrowth, 1))]

\* ------------------------------------------------------ check_deceleration
\* growths for i in range(-3, 0); the first pair reads iloc[-4]
DecelGrowths(qe) ==
  <<RawGrowth(Iloc(qe, -3), Iloc(qe, -4)),
    RawGrowth(Iloc(qe, -2), Iloc(qe, -3)),
    RawGrowth(Iloc(qe, -1), Iloc(qe, -2))>>

\* check_deceleration without its "most recent growth < 15" conjunct
CheckDeceleration_NoCeiling(qe) ==
  IF Len(qe) < 3 THEN [raised |-> FALSE, value |-> FALSE]
  ELSE IF Len(qe) < 4 THEN [raised |-> TRUE, value |-> FALSE]
  ELSE LET growths == DecelGrowths(qe)
       IN [raised |-> FALSE,
           value |-> Lt(growths[3], growths[2]) /\ Lt(growths[2], growths[1])]

CheckDeceleration(qe) ==
  IF Len(qe) < 3 THEN [raised |-> FALSE, value |-> FALSE]
  ELSE IF Len(qe) < 4 THEN [raised |-> TRUE, value |-> FALSE]  \* IndexError at iloc[-4]
  ELSE LET growths == DecelGrowths(qe)
       IN [raised |-> FALSE,
           value |-> /\ Lt(growths[3], growths[2])
                     /\ Lt(growths[2], growths[1])
                     /\ Lt(growths[3], Fin(DecelCeiling, 1))]

\* ------------------------------------------------------ relative_strength
RECURSIVE Gcd(_, _)
Gcd(a, b) == IF b = 0 THEN a ELSE Gcd(b, a % b)

Lcm(a, b) == (a * b) \div Gcd(a, b)

\* least common multiple of the distinct values of a series
RECURSIVE LcmSet(_)
LcmSet(S) ==
  IF S = {} THEN 1
  ELSE LET x == CHOOSE y \in S : TRUE IN Lcm(x, LcmSet(S \ {x}))

LcmSeq(s) == LcmSet({s[i] : i \in 1..Len(s)})

\* the last n entries of a series
LastN(s, n) == SubSeq(s, Len(s) - n + 1, Len(s))

\* rs = stock.Close / market.Close * 100 on the dates both frames hold,
\* every ratio scaled by the common denominator den (and without the * 100,
\* which both sides of the final comparison share)
RsScaled(sc, mc, den) == [j \in 1..Len(sc) |-> sc[j] * (den \div mc[j])]

RelativeStrength(stock_data, market_data) ==
  IF IsEmpty(stock_data) \/ IsEmpty(market_data) THEN FALSE
  ELSE LET n == IF Len(stock_data.Close) < Len(market_data.Close)
                THEN Len(stock_data.Close) ELSE Len(market_data.Close)
           sc == LastN(stock_data.Close, n)
           mc == LastN(market_data.Close, n)
           rs == RsScaled(sc, mc, LcmSeq(mc))
       IN \* rs.iloc[-1] > rs.mean()
          n * rs[n] > SumSeq(rs)

\* ---------------------------------------------------- detect_base_on_base
\* data['pct_change'] = data['Close'].pct_change(): a column is added to the
\* frame the caller passed
WithPctChange(data) ==
  [Close |-> data.Close, Volume |-> data.Volume, pct_change |-> PctChange(data.Close)]

\* the values of i in range(window, len(data), window)
WindowEnds(len) == {i \in Window..(len - 1) : i % Window = 0}

\* slice_data = data.iloc[i-window:i], 0-based half-open: positions i-window+1..i
IsConsolidation(closes, i) ==
  LET slice_close == SubSeq(closes, i - Window + 1, i)
  IN 100 * (MaxSeq(slice_close) - MinSeq(slice_close)) < 15 * MinSeq(slice_close)

\* consolidations, in the order the loop appends them
Consolidations(closes) ==
  [k \in 1..Cardinality(WindowEnds(Len(closes))) |-> IsConsolidation(closes, k * Window)]

DetectBaseOnBase(data) ==
  IF IsEmpty(data) THEN [value |-> FALSE, data |-> data]
  ELSE LET consolidations == Consolidations(data.Close)
           n == Len(consolidations)
       IN [value |-> n >= 2 /\ consolidations[n] /\ consolidations[n-1],
           data |-> WithPctChange(data)]

\* ----------------------------------------------------------- volume_dry_up
\* positions of the rows with pct_change < -0.05
Pullbacks(closes) ==
  {i \in 1..Len(closes) : Lt(PctChange(closes)[i], Fin(-5, 100))}

\* volume_dry_up with .any() in place of .all()
VolumeDryUp_Any(data) ==
  IF IsEmpty(data) THEN FALSE
  ELSE LET pullbacks == Pullbacks(data.Close)
           avg_vol == Fin(SumSeq(data.Volume), Len(data.Volume))
       IN IF pullbacks = {} THEN TRUE
          ELSE \E i \in pullbacks : Lt(Fin(data.Volume[i], 1), avg_vol)

VolumeDryUp(data) ==
  IF IsEmpty(data) THEN FALSE
  ELSE LET pullbacks == Pullbacks(data.Close)
           avg_vol == Fin(SumSeq(data.Volume), Len(data.Volume))
       IN IF pullbacks = {} THEN TRUE
          ELSE \A i \in pullbacks : Lt(Fin(data.Volume[i], 1), avg_vol)

\* ------------------------------------------------------------ screen_stock
\* Python's None is the empty sequence, a value v is <<v>>
None == <<>>
Some(v) == <<v>>

\* fetch_financials on what the data provider holds for the ticker:
\* d.ok = FALSE is a provider call that raised (caught, returns None)
FetchFinancials(d) ==
  IF ~d.ok THEN None
  ELSE Some([q_eps_growth |-> QEpsGrowth(d.qe),
             a_eps_growth |-> AEpsGrowth(d.ae),
             shares_out |-> d.shares,
             institutional_own |-> d.held,
             quarterly_earnings |-> d.qe])

\* fetch_price_data: the provider's frame (empty when it holds none)
FetchPriceData(frame) == frame

NoMatch(n, price_data) ==
  [kind |-> "none", at |-> n, result |-> None, price_data |-> price_data]

Raised(n, price_data) ==
  [kind |-> "raise", at |-> n, result |-> None, price_data |-> price_data]

\* screen_stock with lines 102-103 left out
Criterion1_Omitted(fin) == "pass"

\* q_eps_growth < 25 or check_deceleration(quarterly_earnings)
Criterion1(fin) ==
  IF Lt(fin.q_eps_growth, Fin(MinGrowth, 1)) THEN "reject"
  ELSE LET dec == CheckDeceleration(fin.quarterly_earnings)
       IN IF dec.raised THEN "raise" ELSE IF dec.value THEN "reject" ELSE "pass"

Criterion2(fin) == ~Lt(fin.a_eps_growth, Fin(MinGrowth, 1))

Criterion3(price_data) ==
  ~(IsEmpty(price_data)
    \/ 100 * Iloc(price_data.Close, -1) < 95 * MaxSeq(price_data.Close))

Criterion4(fin) == ~(fin.shares_out > MaxFloat)

Criterion7(fin) == ~(fin.institutional_own < MinInstitutional)

\* market_data['Close'].rolling(200).mean().iloc[-1]: nan below 200 rows
RollingMeanLast(closes) ==
  IF Len(closes) < MAWindow THEN NaN
  ELSE Fin(SumSeq(LastN(closes, MAWindow)), MAWindow)

Criterion8(market_data) ==
  ~(IsEmpty(market_data)
    \/ Lt(Fin(Iloc(market_data.Close, -1), 1), RollingMeanLast(market_data.Close)))

\* lines 102-134: the cascade on fetched data; at = the criterion that
\* returned None (or raised), 0 for the emitted record
Cascade(ticker, fin, price_data, market_data) ==
  LET c1 == Criterion1(fin)
  IN IF c1 = "raise" THEN Raised(1, price_data)
     ELSE IF c1 = "reject" THEN NoMatch(1, price_data)
     ELSE IF ~Criterion2(fin) THEN NoMatch(2, price_data)
     ELSE IF ~Criterion3(price_data) THEN NoMatch(3, price_data)
     ELSE IF ~Criterion4(fin) THEN NoMatch(4, price_data)
     ELSE IF ~VolumeDryUp(price_data) THEN NoMatch(5, price_data)
     ELSE IF ~RelativeStrength(price_data, market_data) THEN NoMatch(6, price_data)
     ELSE IF ~Criterion7(fin) THEN NoMatch(7, price_data)
     ELSE IF ~Criterion8(market_data) THEN NoMatch(8, price_data)
     ELSE LET bob == DetectBaseOnBase(price_data)
          IN [kind |-> "result", at |-> 0,
              result |-> Some([ticker |-> ticker,
                               q_eps_growth |-> fin.q_eps_growth,
                               a_eps_growth |-> fin.a_eps_growth,
                               shares_out |-> fin.shares_out,
                               institutional_own |-> fin.institutional_own,
                               has_base_on_base |-> bob.value]),
              price_data |-> bob.data]

\* screen_stock as a function of the ticker and the provider's data
ScreenStock(ticker, d) ==
  LET financials == FetchFinancials(d)
  IN IF financials = None THEN NoMatch(0, EmptyFrame)
     ELSE Cascade(ticker, financials[1], FetchPriceData(d.price), FetchPriceData(d.market))

\* ------------------------------------------------------------------ inputs
\* sequences over S of length 0..n
SeqsUpTo(S, n) == UNION {[1..k -> S] : k \in 0..n}

Flat(n, c) == [i \in 1..n |-> c]

RECURSIVE Flatten(_)
Flatten(segs) ==
  IF segs = <<>> THEN <<>> ELSE Flat(segs[1][1], segs[1][2]) \o Flatten(Tail(segs))

EpsVals == {-2, 0, 1, 4, 8, 12}
AnnualVals == {0, 1, 2, 4}
CloseVals == {90, 100, 120}
VolVals == {1, 3}
SegLens == {1, Window - 1, Window, Window + 1}
MarketLens == {1, 2, MAWindow - 1} \cup (MAWindow..(MAWindow + MaxExtra))

QSeqs == SeqsUpTo(EpsVals, MaxQ)
ASeqs == SeqsUpTo(AnnualVals, MaxA)
CloseSeqs == SeqsUpTo(CloseVals, MaxBars)

\* every frame of at most MaxBars bars
ShortFrames ==
  {Frame(c, v) : <<c, v>> \in
     {cv \in CloseSeqs \X SeqsUpTo(VolVals, MaxBars) : Len(cv[1]) = Len(cv[2])}}

\* frames made of at most MaxSegs runs of equal closes, unit volume
LongFrames ==
  {Frame(Flatten(segs), Flat(Len(Flatten(segs)), 1)) :
     segs \in SeqsUpTo(SegLens \X CloseVals, MaxSegs)}

\* benchmark frames: flat at 100 with any last close, around the 200-bar mark
MarketFrames ==
  {EmptyFrame} \cup
  {Frame(Flat(n - 1, 100) \o <<c>>, Flat(n, 1)) : <<n, c>> \in MarketLens \X CloseVals}

GoodQ == <<1, 1, 2, 4>>
GoodA == <<1, 2, 4>>
GoodPrice == Frame(<<100, 120>>, <<1, 1>>)
GoodMarket == Frame(Flat(MAWindow, 100), Flat(MAWindow, 1))

\* what the data provider holds for one ticker; held_pct is
\* heldPercentInstitutions in hundredths, so held_pct = the fraction * 100
Data(ok, qe, ae, shares, held, price, market) ==
  [ok |-> ok, qe |-> qe, ae |-> ae, shares |-> shares, held |-> held,
   price |-> price, market |-> market]

Good == Data(TRUE, GoodQ, GoodA, 50000000, 35, GoodPrice, GoodMarket)

\* no ticker is being screened
Idle == Data(FALSE, <<>>, <<>>, 0, 0, EmptyFrame, EmptyFrame)

\* provider data with every quarterly series, the rest passing
EarningsFeed == {[Good EXCEPT !.qe = q] : q \in QSeqs}

\* provider data varying one part at a time around a passing ticker
Feed ==
  {[Good EXCEPT !.ok = FALSE]}
  \cup {[Good EXCEPT !.qe = q] : q \in SeqsUpTo({1, 2, 4}, MaxQ)}
  \cup {[Good EXCEPT !.ae = a] : a \in ASeqs}
  \cup {[Good EXCEPT !.shares = x] : x \in {50000000, 250000000}}
  \cup {[Good EXCEPT !.held = x] : x \in {20, 35}}
  \cup {[Good EXCEPT !.price = f] : f \in ShortFrames \cup LongFrames}
  \cup {[Good EXCEPT !.price = f, !.market = m] :
          <<f, m>> \in {EmptyFrame, GoodPrice, Frame(<<120, 100>>, <<1, 1>>)} \X MarketFrames}

\* the ticker universe: NumTickers distinct symbols
Stocks == [k \in 1..NumTickers |-> k]

\* ------------------------------------------------------------------- state
VARIABLES
  idx,          \* tickers the loop of run_screener has started
  pc,           \* "loop", "screen", "back", "returned", "raised"
  results,      \* self.results
  printed,      \* tickers announced by the progress line
  provider,     \* what the data provider holds for the ticker being screened
  financials,   \* screen_stock's local
  price_data,   \* screen_stock's local
  market_data,  \* screen_stock's local
  outcome,      \* what the last screen_stock call did
  history,      \* the value each screen_stock call returned, in call order
  call,         \* unit application: the function and its argument
  ret           \* unit application: None until applied, then Some(result)

vars == <<idx, pc, results, printed, provider, financials, price_data,
          market_data, outcome, history, call, ret>>

runVars == <<idx, pc, results, printed, provider, financials, price_data,
             market_data, outcome, history>>

NoCall == [fn |-> "none", arg |-> <<>>]

\* ------------------------------------------------------------ run_screener
Init ==
  /\ idx = 0
  /\ pc = "loop"
  /\ results = <<>>
  /\ printed = <<>>
  /\ provider = Idle
  /\ financials = None
  /\ price_data = EmptyFrame
  /\ market_data = EmptyFrame
  /\ outcome = NoMatch(0, EmptyFrame)
  /\ history = <<>>
  /\ call = NoCall
  /\ ret = None

\* lines 137-139 and 94-100: next ticker, progress line, the three fetches
Fetch ==
  /\ pc = "loop"
  /\ idx < NumTickers
  /\ \E d \in Feed :
       /\ provider' = d
       /\ financials' = FetchFinancials(d)
       /\ price_data' = IF FetchFinancials(d) = None THEN EmptyFrame
                        ELSE FetchPriceData(d.price)
       /\ market_data' = IF FetchFinancials(d) = None THEN EmptyFrame
                         ELSE FetchPriceData(d.market)
  /\ idx' = idx + 1
  /\ printed' = Append(printed, Stocks[idx + 1])
  /\ pc' = "screen"
  /\ UNCHANGED <<results, outcome, history, call, ret>>

\* lines 96-97: no financials, screen_stock returns None
ScreenSkip ==
  /\ pc = "screen"
  /\ financials = None
  /\ outcome' = NoMatch(0, price_data)
  /\ pc' = "back"
  /\ UNCHANGED <<idx, results, printed, provider, financials, price_data,
                 market_data, history, call, ret>>

\* lines 102-123: a criterion returns None
ScreenReject ==
  /\ pc = "screen"
  /\ financials # None
  /\ LET out == Cascade(Stocks[idx], financials[1], price_data, market_data)
     IN /\ out.kind = "none"
        /\ outcome' = out
        /\ price_data' = out.price_data
  /\ pc' = "back"
  /\ UNCHANGED <<idx, results, printed, provider, financials, market_data,
                 history, call, ret>>

\* lines 125-134: all criteria passed, the record is built
ScreenEmit ==
  /\ pc = "screen"
  /\ financials # None
  /\ LET out == Cascade(Stocks[idx], financials[1], price_data, market_data)
     IN /\ out.kind = "result"
        /\ outcome' = out
        /\ price_data' = out.price_data
  /\ pc' = "back"
  /\ UNCHANGED <<idx, results, printed, provider, financials, market_data,
                 history, call, ret>>

\* line 102: check_deceleration raises; nothing catches it up to line 157
ScreenRaise ==
  /\ pc = "screen"
  /\ financials # None
  /\ LET out == Cascade(Stocks[idx], financials[1], price_data, market_data)
     IN /\ out.kind = "raise"
        /\ outcome' = out
        /\ price_data' = out.price_data
  /\ pc' = "raised"
  /\ UNCHANGED <<idx, results, printed, provider, financials, market_data,
                 history, call, ret>>

\* lines 139-141: screen_stock has returned; its locals are gone, a record
\* is appended to self.results
Collect ==
  /\ pc = "back"
  /\ results' = IF outcome.result # None THEN Append(results, outcome.result[1])
                ELSE results
  /\ history' = Append(history, outcome.result)
  /\ provider' = Idle
  /\ financials' = None
  /\ price_data' = EmptyFrame
  /\ market_data' = EmptyFrame
  /\ outcome' = NoMatch(0, EmptyFrame)
  /\ pc' = "loop"
  /\ UNCHANGED <<idx, printed, call, ret>>

\* line 142
Return ==
  /\ pc = "loop"
  /\ idx = NumTickers
  /\ pc' = "returned"
  /\ UNCHANGED <<idx, results, printed, provider, financials, price_data,
                 market_data, outcome, history, call, ret>>

Next ==
  Fetch \/ ScreenSkip \/ ScreenReject \/ ScreenEmit \/ ScreenRaise \/ Collect \/ Return

Spec == Init /\ [][Next]_vars

\* ------------------------------------------------- the functions one by one
\* every application checked: a function of the class and an argument
UnitCalls ==
  {[fn |-> "fetch_financials", arg |-> d] :
     d \in EarningsFeed \cup {[Good EXCEPT !.ae = a] : a \in ASeqs}
             \cup {[Good EXCEPT !.ok = FALSE]}}
  \cup {[fn |-> "check_accelerating_earnings", arg |-> q] : q \in QSeqs}
  \cup {[fn |-> "check_deceleration", arg |-> q] : q \in QSeqs}
  \cup {[fn |-> "relative_strength", arg |-> <<Frame(sc, Flat(Len(sc), 1)), Frame(mc, Flat(Len(mc), 1))>>] :
          <<sc, mc>> \in CloseSeqs \X CloseSeqs}
  \cup {[fn |-> "detect_base_on_base", arg |-> f] : f \in LongFrames}
  \cup {[fn |-> "volume_dry_up", arg |-> f] : f \in ShortFrames}
  \cup {[fn |-> "screen_stock", arg |-> d] : d \in EarningsFeed \cup Feed}

InitUnit ==
  /\ call \in UnitCalls
  /\ ret = None
  /\ idx = 0
  /\ pc = "unit"
  /\ results = <<>>
  /\ printed = <<>>
  /\ provider = Idle
  /\ financials = None
  /\ price_data = EmptyFrame
  /\ market_data = EmptyFrame
  /\ outcome = NoMatch(0, EmptyFrame)
  /\ history = <<>>

Apply(fn, value) ==
  /\ pc = "unit"
  /\ call.fn = fn
  /\ ret = None
  /\ ret' = Some(value)
  /\ UNCHANGED <<call, runVars>>

ApplyFetchFinancials == Apply("fetch_financials", FetchFinancials(call.arg))

ApplyCheckAcceleratingEarnings ==
  Apply("check_accelerating_earnings", CheckAcceleratingEarnings(call.arg))

ApplyCheckDeceleration == Apply("check_deceleration", CheckDeceleration(call.arg))

ApplyRelativeStrength ==
  Apply("relative_strength", RelativeStrength(call.arg[1], call.arg[2]))

ApplyDetectBaseOnBase == Apply("detect_base_on_base", DetectBaseOnBase(call.arg))

ApplyVolumeDryUp == Apply("volume_dry_up", VolumeDryUp(call.arg))

ApplyScreenStock == Apply("screen_stock", ScreenStock(Stocks[1], call.arg))

NextUnit ==
  \/ ApplyFetchFinancials
  \/ ApplyCheckAcceleratingEarnings
  \/ ApplyCheckDeceleration
  \/ ApplyRelativeStrength
  \/ ApplyDetectBaseOnBase
  \/ ApplyVolumeDryUp
  \/ ApplyScreenStock

SpecUnit == InitUnit /\ [][NextUnit]_vars

\* ------------------------------------------------------------------ claims
\* the growth rate under the divide-by-zero floor rule: 0 for a zero divisor
GuardedGrowth(cur, prev) == IF prev = 0 THEN Fin(0, 1) ELSE RawGrowth(cur, prev)

\* the last three growth rates strictly decreasing and the latest below 15
Decelerating(qe) ==
  /\ Len(qe) >= 4
  /\ LET n == Len(qe)
         g3 == RawGrowth(qe[n-2], qe[n-3])
         g2 == RawGrowth(qe[n-1], qe[n-2])
         g1 == RawGrowth(qe[n], qe[n-1])
     IN Lt(g2, g3) /\ Lt(g1, g2) /\ Lt(g1, Fin(15, 1))

\* the same with each growth rate under the floor rule
DeceleratingGuarded(qe) ==
  /\ Len(qe) >= 4
  /\ LET n == Len(qe)
         g3 == GuardedGrowth(qe[n-2], qe[n-3])
         g2 == GuardedGrowth(qe[n-1], qe[n-2])
         g1 == GuardedGrowth(qe[n], qe[n-1])
     IN Lt(g2, g3) /\ Lt(g1, g2) /\ Lt(g1, Fin(15, 1))

\* criterion 8 as specified: at least 200 bars and the latest close not
\* below the mean of the last 200
Criterion8FailClosed(market) ==
  /\ Len(market.Close) >= 200
  /\ 200 * market.Close[Len(market.Close)]
       >= SumRange(market.Close, Len(market.Close) - 199, Len(market.Close))

\* the eight criteria, all at once
AllEightHold(fin, price, market) ==
  /\ ~Lt(fin.q_eps_growth, Fin(25, 1))
  /\ ~DeceleratingGuarded(fin.quarterly_earnings)
  /\ Criterion2(fin)
  /\ Criterion3(price)
  /\ Criterion4(fin)
  /\ VolumeDryUp(price)
  /\ RelativeStrength(price, market)
  /\ Criterion7(fin)
  /\ Criterion8FailClosed(market)

\* C1: whenever the benchmark has fewer than 200 bars, screen_stock returns
\* no-match (criterion 8 fails closed); no record is emitted.
C1_ShortBenchmarkNoMatch ==
  (pc = "back" /\ financials # None /\ Len(market_data.Close) < 200)
    => outcome.kind = "none"

\* C2: screen_stock emits a record exactly when all 8 criteria hold at once
\* and returns no-match otherwise.
C2_CascadeIsConjunction ==
  (pc \in {"back", "raised"} /\ financials # None)
    => outcome.kind =
         (IF AllEightHold(financials[1], FetchPriceData(provider.price), market_data)
          THEN "result" ELSE "none")

\* the records among the values screen_stock returned, in call order
RECURSIVE Records(_)
Records(h) ==
  IF h = <<>> THEN <<>>
  ELSE (IF h[1] = None THEN <<>> ELSE <<h[1][1]>>) \o Records(Tail(h))

\* C3: run_screener never stops short of returning; when it returns every
\* ticker was screened once in universe order and results holds exactly the
\* records of the tickers that passed, in that order.
C3_BatchCompletes ==
  /\ pc # "raised"
  /\ pc = "returned" =>
       /\ printed = Stocks
       /\ Len(history) = NumTickers
       /\ results = Records(history)
       /\ \A k \in 1..Len(results) : results[k].ticker \in 1..NumTickers
       /\ \A j, k \in 1..Len(results) : j < k => results[j].ticker < results[k].ticker

\* C4: a ticker whose quarterly earnings are decelerating is never emitted,
\* whatever its quarterly growth figure and the other seven criteria.
C4_DecelerationRejects ==
  (call.fn = "screen_stock" /\ ret # None /\ call.arg.ok
     /\ (Decelerating(call.arg.qe) \/ DeceleratingGuarded(call.arg.qe)))
    => ret[1].kind = "none"

\* C4 witness: a decelerating series with every other criterion passing was
\* screened and rejected at criterion 1
C4_Witness ==
  /\ call.fn = "screen_stock" /\ ret # None
  /\ Decelerating(call.arg.qe)
  /\ \A k \in 1..3 : call.arg.qe[Len(call.arg.qe) - k] # 0
  /\ call.arg = [Good EXCEPT !.qe = call.arg.qe]
  /\ ret[1].kind = "none" /\ ret[1].at = 1

\* tight 20-bar window number k (1-based) of a close series
TightWindow(closes, k) ==
  LET w == SubSeq(closes, 20 * (k - 1) + 1, 20 * k)
  IN \A i, j \in 1..20 : 100 * (w[i] - w[j]) < 15 * w[j]

\* base on base: at least 2 full windows, the last two both tight
BaseOnBase(closes) ==
  LET nw == Len(closes) \div 20
  IN nw >= 2 /\ TightWindow(closes, nw) /\ TightWindow(closes, nw - 1)

\* C5: detect_base_on_base is true exactly when the series has at least 2
\* full 20-bar windows (only a trailing partial window dropped) and the two
\* most recent full windows are tight.
C5_BaseOnBaseWindows ==
  (call.fn = "detect_base_on_base" /\ ret # None)
    => ret[1].value = BaseOnBase(call.arg.Close)

\* C6: every growth rate computed by fetch_financials,
\* check_accelerating_earnings and check_deceleration is the floor-rule rate:
\* 0 when the previous EPS is 0, hence always finite.
C6_GrowthGuarded ==
  ret # None =>
    /\ (call.fn = "fetch_financials" /\ ret[1] # None) =>
         /\ IsFinite(ret[1][1].q_eps_growth)
         /\ IsFinite(ret[1][1].a_eps_growth)
         /\ \A i \in DOMAIN AnnualGrowths(call.arg.ae) :
              LET e == LastN(call.arg.ae, 3)
              IN AnnualGrowths(call.arg.ae)[i] = GuardedGrowth(e[i+1], e[i])
    /\ (call.fn = "check_accelerating_earnings" /\ Len(call.arg) >= 3) =>
         \A i \in 1..2 :
           AccelGrowths(call.arg)[i]
             = GuardedGrowth(Iloc(call.arg, i - 3), Iloc(call.arg, i - 4))
    /\ (call.fn = "check_deceleration" /\ Len(call.arg) >= 4) =>
         \A i \in 1..3 :
           DecelGrowths(call.arg)[i]
             = GuardedGrowth(Iloc(call.arg, i - 4), Iloc(call.arg, i - 5))

\* C7: check_deceleration returns a boolean without raising: false below 3
\* entries, and from 3 entries on true exactly when the last three growth
\* rates are strictly decreasing and the latest is below 15.
C7_DecelerationTotal ==
  (call.fn = "check_deceleration" /\ ret # None) =>
    /\ ~ret[1].raised
    /\ Len(call.arg) < 3 => ~ret[1].value
    /\ Len(call.arg) >= 4 => (ret[1].value <=> Decelerating(call.arg))

\* the pullback bars: close more than 5% below the previous close
PullbackBars(closes) ==
  {i \in 2..Len(closes) : 100 * (closes[i] - closes[i-1]) < -5 * closes[i-1]}

\* C8: volume_dry_up is false on an empty series, true on a non-empty series
\* without pullback bars, and otherwise true exactly when every pullback
\* bar's volume is strictly below the mean volume of the whole series.
C8_VolumeDryUp ==
  (call.fn = "volume_dry_up" /\ ret # None) =>
    LET c == call.arg.Close
        v == call.arg.Volume
    IN ret[1] = (/\ Len(c) > 0
                 /\ \A i \in PullbackBars(c) : v[i] * Len(v) < SumRange(v, 1, Len(v)))

\* C8 witness: a series with one pullback bar below the mean volume and
\* another at or above it was judged false
C8_Witness ==
  /\ call.fn = "volume_dry_up" /\ ret # None
  /\ LET c == call.arg.Close
         v == call.arg.Volume
     IN /\ \E i \in PullbackBars(c) : v[i] * Len(v) < SumRange(v, 1, Len(v))
        /\ \E i \in PullbackBars(c) : v[i] * Len(v) >= SumRange(v, 1, Len(v))
  /\ ret[1] = FALSE

\* C9: the pattern functions leave the price series as fetched: after
\* screen_stock the frame has the columns and values it was fetched with.
C9_PriceSeriesUnchanged ==
  (pc = "back" /\ financials # None) => price_data = FetchPriceData(provider.price)

\* the three most recent divisors of the quarterly series are nonzero
NonzeroPrevious(qe) == \A k \in 1..3 : qe[Len(qe) - k] # 0

\* C10: the deceleration override never changes criterion 1: with at least
\* 4 entries and nonzero previous values, quarterly growth >= 25 implies
\* check_deceleration is false; whenever check_deceleration is reached it
\* returns false or cannot be evaluated; and criterion 1 rejects exactly when
\* quarterly growth < 25.
C10_OverrideNeverFires ==
  (call.fn = "screen_stock" /\ call.arg.ok) =>
    LET qe == call.arg.qe
        reached == ~Lt(QEpsGrowth(qe), Fin(25, 1))
        dec == CheckDeceleration(qe)
    IN /\ (Len(qe) >= 4 /\ NonzeroPrevious(qe) /\ reached)
            => (~dec.raised /\ ~dec.value)
       /\ reached => (dec.raised \/ ~dec.value)
       /\ (ret # None /\ ret[1].kind # "raise")
            => (ret[1].at = 1 <=> ~reached)

\* C10 witness: growth rates 300, 100, 50 (strictly decreasing, latest >= 25):
\* check_deceleration was reached, returned false, and the ticker was emitted
C10_Witness ==
  /\ call.fn = "screen_stock" /\ ret # None
  /\ LET qe == call.arg.qe
     IN /\ Len(qe) >= 4 /\ NonzeroPrevious(qe)
        /\ Lt(DecelGrowths(qe)[3], DecelGrowths(qe)[2])
        /\ Lt(DecelGrowths(qe)[2], DecelGrowths(qe)[1])
        /\ ~Lt(QEpsGrowth(qe), Fin(25, 1))
  /\ ret[1].kind = "result"

====
